---- MODULE Spec2Model ----
(***************************************************************************)
(* Model of helpers/tls/ca_chain/resolver_url.go: the URL based resolver   *)
(* of incomplete certificate chains (urlResolver.Resolve), its helper      *)
(* fetchIssuerCertificate and the HTTP fetcher (httpFetcher.Fetch).        *)
(*                                                                         *)
(* One call of Resolve is modelled step by step; pc is the position of the *)
(* call in the code.  The remote servers and the network are the           *)
(* environment: every HTTP GET can fail, or answer with any status and any *)
(* body, so every issuer graph (cyclic, endless, broken) is a behaviour.   *)
(***************************************************************************)
EXTENDS Integers, Sequences, FiniteSets, TLC

(* ---------------------------- bounds ----------------------------------- *)

\* largest number of strategies of the orchestrator
MaxStrategies == 3

\* longest chain handed to Resolve
MaxInputLen == 2

\* loopLimit values range over 0..MaxLoopLimit
MaxLoopLimit == 4

(* -------------------------- certificates ------------------------------- *)

\* x509.Certificate, reduced to the fields the resolver and the root
\* detector read.  IssuingCertificateURL = <<>> is the nil slice: x509
\* parsing leaves the field nil when the AIA extension has no issuer URL.
Cert(s, i, v, u) ==
    [Subject |-> s, Issuer |-> i, selfVerifies |-> v, IssuingCertificateURL |-> u]

certX == Cert("X", "Y", FALSE, <<"u1">>)
certY == Cert("Y", "Z", FALSE, <<"u2", "u1">>)
certZ == Cert("Z", "R", FALSE, <<"u1">>)
\* a root that (unusually) carries an issuer URL
certR == Cert("R", "R", TRUE, <<"u1">>)
\* issuer = subject, but the signature does not verify with its own key
certF == Cert("F", "F", FALSE, <<"u2">>)
\* not a root, and no issuer URL
certL == Cert("L", "R", FALSE, <<>>)

Certificates == {certX, certY, certZ, certR, certF, certL}

\* the chains a caller may pass: leaf first, possibly empty
InputChains == UNION {[1..n -> Certificates] : n \in 0..MaxInputLen}

LoopLimits == 0..MaxLoopLimit

(* ------------------------------ bytes ---------------------------------- *)

\* what a server can send as a response body: the DER encoding of a
\* certificate, or bytes that are no certificate
DER(c) == <<"DER", c.Subject>>
Garbage == <<"garbage">>
Bodies == {DER(c) : c \in Certificates} \cup {Garbage}

\* decodeCertificate: parses one binary encoded certificate
decodeOK(data) == \E c \in Certificates : DER(c) = data
decodeCertificate(data) == CHOOSE c \in Certificates : DER(c) = data

(* ------------------------------ errors --------------------------------- *)

\* an error is the list of the parts of its message, outermost first;
\* fmt.Errorf("...: %v", err) puts a part in front.  <<>> is the nil error.
NoError == <<>>

\* Wrap with the cause left out of the message
Wrap_DropCause(msg, err) == <<msg>>

\* fmt.Errorf(msg + ": %v", err)
Wrap(msg, err) == <<msg>> \o err

\* the nil slice of certificates
NilChain == <<>>

(* ---------------------------- HTTP fetcher ----------------------------- *)

\* http.Response.Status of the answers the servers give
StatusOK == "200 OK"
StatusInternalServerError == "500 Internal Server Error"
Statuses == {StatusOK, StatusInternalServerError}

\* outcomes of http.Client.Get followed by ioutil.ReadAll: Get fails (no
\* connection, timeout), or a response arrives with any status and the
\* reading of its body succeeds or fails
HTTPOutcomes ==
    [getErr : {TRUE}, status : {""}, body : {Garbage}, readErr : {FALSE}]
    \cup [getErr : {FALSE}, status : Statuses, body : Bodies, readErr : BOOLEAN]

\* httpFetcher.Fetch: (data, err) for an outcome of the GET.  The error of
\* http.Client.Get is a *url.Error, whose message names the method and the
\* URL in front of the cause; the error of ioutil.ReadAll does not.
Fetch(url, o) ==
    IF o.getErr THEN [data |-> Garbage, err |-> <<"Get", url, "connection error">>]
    ELSE IF o.readErr THEN [data |-> Garbage, err |-> <<"read error">>]
    ELSE [data |-> o.body, err |-> NoError]

(* ------------------------------ state ---------------------------------- *)

VARIABLES
    loopLimit,    \* urlResolver.loopLimit
    pc,           \* position of the Resolve call
    input,        \* the chain the caller passed
    certs,        \* Resolve's certs
    loop,         \* Resolve's loop counter
    issuerURL,    \* fetchIssuerCertificate's issuerURL
    resp,         \* the outcome of the last GET
    data,         \* fetchIssuerCertificate's data
    err,          \* fetchIssuerCertificate's err
    newCert,      \* the decoded certificate
    retChain,     \* Resolve's first result
    retErr,       \* Resolve's second result
    warnings,     \* the warning records written to the logger
    fetched,      \* the URLs passed to fetcher.Fetch, in order
    decodes,      \* number of calls of the decoder
    exit,         \* how the loop was left
    orch,         \* the call of the resolution orchestrator
    calls         \* the calls of concurrent callers of one urlResolver

vars == <<loopLimit, pc, input, certs, loop, issuerURL, resp, data, err,
          newCert, retChain, retErr, warnings, fetched, decodes, exit,
          orch, calls>>

\* the variables of the single call of Resolve
callVars == <<pc, input, certs, loop, issuerURL, resp, data, err,
              newCert, retChain, retErr, warnings, fetched, decodes, exit>>

\* const defaultURLResolverLoopLimit = 15
defaultURLResolverLoopLimit == 15

\* the callers that share one urlResolver
Callers == {"a", "b"}

\* the orchestrator before its call
OrchIdle ==
    [pc |-> "idle", n |-> 1, input |-> <<>>, i |-> 1, results |-> <<>>,
     chain |-> NilChain, err |-> NoError]

\* Resolve's locals and results in a call that has not started
CallIdle ==
    [pc |-> "start", input |-> <<>>, certs |-> <<>>, loop |-> 0,
     resps |-> <<>>, data |-> Garbage, err |-> NoError, newCert |-> certX,
     retChain |-> NilChain, retErr |-> NoError, fetches |-> 0]

NoResp == [getErr |-> FALSE, status |-> "", body |-> Garbage, readErr |-> FALSE]

\* a resolver with some loop limit has been constructed; no call yet
Init ==
    /\ loopLimit \in LoopLimits
    /\ pc = "start"
    /\ input = <<>>
    /\ certs = <<>>
    /\ loop = 0
    /\ issuerURL = ""
    /\ resp = NoResp
    /\ data = Garbage
    /\ err = NoError
    /\ newCert = certX
    /\ retChain = NilChain
    /\ retErr = NoError
    /\ warnings = <<>>
    /\ fetched = <<>>
    /\ decodes = 0
    /\ exit = "none"
    /\ orch = OrchIdle
    /\ calls = [c \in Callers |-> CallIdle]

(* ----------------------------- Resolve --------------------------------- *)

\* ResolveEnter with an empty chain reported as an error
ResolveEnter_ErrOnEmpty ==
    /\ pc = "start"
    /\ \E chain \in InputChains :
        /\ input' = chain
        /\ certs' = chain
        /\ IF Len(chain) < 1
           THEN /\ pc' = "done"
                /\ exit' = "empty"
                /\ retErr' = <<"empty chain">>
           ELSE /\ pc' = "loop"
                /\ exit' = exit
                /\ retErr' = NoError
    /\ loop' = 0
    /\ retChain' = NilChain
    /\ UNCHANGED <<orch, calls, loopLimit, issuerURL, resp, data, err, newCert, warnings,
                   fetched, decodes>>

\* if len(certs) < 1 { return nil, nil }; loop := 0
ResolveEnter ==
    /\ pc = "start"
    /\ \E chain \in InputChains :
        /\ input' = chain
        /\ certs' = chain
        /\ IF Len(chain) < 1
           THEN /\ pc' = "done"
                /\ exit' = "empty"
           ELSE /\ pc' = "loop"
                /\ exit' = exit
    /\ loop' = 0
    /\ retChain' = NilChain
    /\ retErr' = NoError
    /\ UNCHANGED <<orch, calls, loopLimit, issuerURL, resp, data, err, newCert, warnings,
                   fetched, decodes>>

\* LoopLimitReached with = for >=
LoopLimitReached_Equal(l, limit) == l = limit

\* LoopLimitReached with > for >=
LoopLimitReached_Strict(l, limit) == l > limit

\* loop >= r.loopLimit
LoopLimitReached(l, limit) == l >= limit

\* LoopLimitCheck with the limit tested before loop++
LoopLimitCheck_TestFirst ==
    /\ pc = "loop"
    /\ loop' = loop + 1
    /\ IF LoopLimitReached(loop, loopLimit)
       THEN /\ warnings' = Append(warnings, "urlResolver loop limit exceeded; exiting the loop")
            /\ exit' = "limit"
            /\ pc' = "return"
       ELSE /\ pc' = "inspect"
            /\ UNCHANGED <<warnings, exit>>
    /\ UNCHANGED <<orch, calls, loopLimit, input, certs, issuerURL, resp, data, err,
                   newCert, retChain, retErr, fetched, decodes>>

\* LoopLimitCheck with the limit treated as a hard error
LoopLimitCheck_HardError ==
    /\ pc = "loop"
    /\ loop' = loop + 1
    /\ IF LoopLimitReached(loop + 1, loopLimit)
       THEN /\ warnings' = Append(warnings, "urlResolver loop limit exceeded; exiting the loop")
            /\ exit' = "limit"
            /\ retChain' = NilChain
            /\ retErr' = <<"loop limit exceeded">>
            /\ pc' = "done"
       ELSE /\ pc' = "inspect"
            /\ UNCHANGED <<warnings, exit, retChain, retErr>>
    /\ UNCHANGED <<orch, calls, loopLimit, input, certs, issuerURL, resp, data, err,
                   newCert, fetched, decodes>>

\* loop++; if loop >= r.loopLimit { Warning(...); break }
LoopLimitCheck ==
    /\ pc = "loop"
    /\ loop' = loop + 1
    /\ IF LoopLimitReached(loop + 1, loopLimit)
       THEN /\ warnings' = Append(warnings, "urlResolver loop limit exceeded; exiting the loop")
            /\ exit' = "limit"
            /\ pc' = "return"
       ELSE /\ pc' = "inspect"
            /\ UNCHANGED <<warnings, exit>>
    /\ UNCHANGED <<orch, calls, loopLimit, input, certs, issuerURL, resp, data, err,
                   newCert, retChain, retErr, fetched, decodes>>

\* certificate := certs[len(certs)-1]
LastCert(cs) == cs[Len(cs)]

\* certificate.IssuingCertificateURL == nil
NoParentURL(certificate) == certificate.IssuingCertificateURL = <<>>

\* InspectTail with a missing parent URL reported as an error
InspectTail_ErrOnNoURL ==
    /\ pc = "inspect"
    /\ IF NoParentURL(LastCert(certs))
       THEN /\ exit' = "nourl"
            /\ retChain' = NilChain
            /\ retErr' = <<"no parent URL">>
            /\ pc' = "done"
       ELSE /\ pc' = "fetch"
            /\ UNCHANGED <<exit, retChain, retErr>>
    /\ UNCHANGED <<orch, calls, loopLimit, input, certs, loop, issuerURL, resp, data, err,
                   newCert, warnings, fetched, decodes>>

\* InspectTail with the root check applied to the tail as well
InspectTail_RootCheck ==
    /\ pc = "inspect"
    /\ IF NoParentURL(LastCert(certs))
          \/ (LastCert(certs).Issuer = LastCert(certs).Subject
              /\ LastCert(certs).selfVerifies)
       THEN /\ exit' = "nourl"
            /\ pc' = "return"
       ELSE /\ pc' = "fetch"
            /\ exit' = exit
    /\ UNCHANGED <<orch, calls, loopLimit, input, certs, loop, issuerURL, resp, data, err,
                   newCert, retChain, retErr, warnings, fetched, decodes>>

\* if certificate.IssuingCertificateURL == nil { break }
InspectTail ==
    /\ pc = "inspect"
    /\ IF NoParentURL(LastCert(certs))
       THEN /\ exit' = "nourl"
            /\ pc' = "return"
       ELSE /\ pc' = "fetch"
            /\ exit' = exit
    /\ UNCHANGED <<orch, calls, loopLimit, input, certs, loop, issuerURL, resp, data, err,
                   newCert, retChain, retErr, warnings, fetched, decodes>>

\* FirstIssuerURL taking the last of the URLs
FirstIssuerURL_Last(cert) ==
    cert.IssuingCertificateURL[Len(cert.IssuingCertificateURL)]

\* issuerURL := cert.IssuingCertificateURL[0]
FirstIssuerURL(cert) == cert.IssuingCertificateURL[1]

\* fetchIssuerCertificate, first half:
\* issuerURL := cert.IssuingCertificateURL[0]; data, err := r.fetcher.Fetch(issuerURL)
FetchIssuer ==
    /\ pc = "fetch"
    /\ issuerURL' = FirstIssuerURL(LastCert(certs))
    /\ fetched' = Append(fetched, FirstIssuerURL(LastCert(certs)))
    /\ \E o \in HTTPOutcomes :
        /\ resp' = o
        /\ data' = Fetch(FirstIssuerURL(LastCert(certs)), o).data
        /\ err' = Fetch(FirstIssuerURL(LastCert(certs)), o).err
    /\ pc' = "fetched"
    /\ UNCHANGED <<orch, calls, loopLimit, input, certs, loop, newCert, retChain, retErr,
                   warnings, decodes, exit>>

\* AbortResult handing back the chain resolved so far next to the error
AbortResult_Partial(cs, e) ==
    [chain |-> cs, err |-> Wrap("error while fetching issuer certificate", e)]

\* what Resolve returns when fetchIssuerCertificate returned the error e:
\* return nil, fmt.Errorf("error while fetching issuer certificate: %v", err)
AbortResult(cs, e) ==
    [chain |-> NilChain, err |-> Wrap("error while fetching issuer certificate", e)]

\* if err != nil { Warning(...); return nil, fmt.Errorf("remote fetch failure: %v", err) }
\* and Resolve's return on that error
FetchFailed ==
    /\ pc = "fetched"
    /\ err # NoError
    /\ warnings' = Append(warnings, "Remote certificate fetching error")
    /\ retChain' = AbortResult(certs, Wrap("remote fetch failure", err)).chain
    /\ retErr' = AbortResult(certs, Wrap("remote fetch failure", err)).err
    /\ exit' = "fetcherr"
    /\ pc' = "done"
    /\ UNCHANGED <<orch, calls, loopLimit, input, certs, loop, issuerURL, resp, data, err,
                   newCert, fetched, decodes>>

\* newCert, err := r.decoder(data), decoding succeeds
DecodeOK ==
    /\ pc = "fetched"
    /\ err = NoError
    /\ decodeOK(data)
    /\ decodes' = decodes + 1
    /\ newCert' = decodeCertificate(data)
    /\ pc' = "decoded"
    /\ UNCHANGED <<orch, calls, loopLimit, input, certs, loop, issuerURL, resp, data, err,
                   retChain, retErr, warnings, fetched, exit>>

\* DecodeFailed with the undecodable answer skipped: warn, leave the loop
\* and return what was resolved so far
DecodeFailed_Skip ==
    /\ pc = "fetched"
    /\ err = NoError
    /\ ~decodeOK(data)
    /\ decodes' = decodes + 1
    /\ err' = <<"parse error">>
    /\ warnings' = Append(warnings, "Certificate decoding error")
    /\ exit' = "decodeerr"
    /\ pc' = "return"
    /\ UNCHANGED <<orch, calls, loopLimit, input, certs, loop, issuerURL, resp, data,
                   newCert, retChain, retErr, fetched>>

\* DecodeFailed without the return on a fetch error in front of it: the
\* decoder is called with the data of a failed fetch
DecodeFailed_AfterFailedFetch ==
    /\ pc = "fetched"
    /\ ~decodeOK(data)
    /\ decodes' = decodes + 1
    /\ err' = <<"parse error">>
    /\ warnings' = Append(warnings, "Certificate decoding error")
    /\ retChain' = NilChain
    /\ retErr' = Wrap("error while fetching issuer certificate",
                      Wrap("decoding failure", <<"parse error">>))
    /\ exit' = "decodeerr"
    /\ pc' = "done"
    /\ UNCHANGED <<orch, calls, loopLimit, input, certs, loop, issuerURL, resp, data,
                   newCert, fetched>>

\* newCert, err := r.decoder(data); if err != nil { Warning(...);
\* return nil, fmt.Errorf("decoding failure: %v", err) } and Resolve's
\* return on that error
DecodeFailed ==
    /\ pc = "fetched"
    /\ err = NoError
    /\ ~decodeOK(data)
    /\ decodes' = decodes + 1
    /\ err' = <<"parse error">>
    /\ warnings' = Append(warnings, "Certificate decoding error")
    /\ retChain' = AbortResult(certs, Wrap("decoding failure", <<"parse error">>)).chain
    /\ retErr' = AbortResult(certs, Wrap("decoding failure", <<"parse error">>)).err
    /\ exit' = "decodeerr"
    /\ pc' = "done"
    /\ UNCHANGED <<orch, calls, loopLimit, input, certs, loop, issuerURL, resp, data,
                   newCert, fetched>>

\* isSelfSigned: issuer identity = subject identity and the signature
\* verifies with the certificate's own public key
isSelfSigned(cert) == cert.Issuer = cert.Subject /\ cert.selfVerifies

\* AppendTo putting the new certificate in front
AppendTo_Front(cs, c) == <<c>> \o cs

\* append(certs, newCert)
AppendTo(cs, c) == Append(cs, c)

\* AppendCert without the root check
AppendCert_NoRootCheck ==
    /\ pc = "decoded"
    /\ certs' = AppendTo(certs, newCert)
    /\ pc' = "loop"
    /\ UNCHANGED <<orch, calls, loopLimit, input, loop, issuerURL, resp, data, err,
                   newCert, retChain, retErr, warnings, fetched, decodes, exit>>

\* AppendCert with the root check on certificate, the old tail, in place
\* of newCert
AppendCert_CheckOldTail ==
    /\ pc = "decoded"
    /\ certs' = AppendTo(certs, newCert)
    /\ IF LastCert(certs).Issuer = LastCert(certs).Subject
          /\ LastCert(certs).selfVerifies
       THEN /\ exit' = "root"
            /\ pc' = "return"
       ELSE /\ pc' = "loop"
            /\ exit' = exit
    /\ UNCHANGED <<orch, calls, loopLimit, input, loop, issuerURL, resp, data, err,
                   newCert, retChain, retErr, warnings, fetched, decodes>>

\* certs = append(certs, newCert); if isSelfSigned(newCert) { break }
AppendCert ==
    /\ pc = "decoded"
    /\ certs' = AppendTo(certs, newCert)
    /\ IF isSelfSigned(newCert)
       THEN /\ exit' = "root"
            /\ pc' = "return"
       ELSE /\ pc' = "loop"
            /\ exit' = exit
    /\ UNCHANGED <<orch, calls, loopLimit, input, loop, issuerURL, resp, data, err,
                   newCert, retChain, retErr, warnings, fetched, decodes>>

\* return certs, nil
ReturnChain ==
    /\ pc = "return"
    /\ retChain' = certs
    /\ retErr' = NoError
    /\ pc' = "done"
    /\ UNCHANGED <<orch, calls, loopLimit, input, certs, loop, issuerURL, resp, data, err,
                   newCert, warnings, fetched, decodes, exit>>

Next ==
    \/ ResolveEnter
    \/ LoopLimitCheck
    \/ InspectTail
    \/ FetchIssuer
    \/ FetchFailed
    \/ DecodeOK
    \/ DecodeFailed
    \/ AppendCert
    \/ ReturnChain

Spec == Init /\ [][Next]_vars

(* --------------------------- orchestrator ----------------------------- *)

\* the chains handed to the orchestrator
OrchInputs == {<<>>, <<certX>>, <<certX, certY>>}

\* what a resolver strategy can return for a chain: the chain, possibly
\* extended, and no error, or no chain and an error
StrategyOutcomes(chain) ==
    {[chain |-> chain \o ext, err |-> NoError] : ext \in {<<>>, <<certR>>}}
    \cup {[chain |-> NilChain, err |-> <<e>>] :
            e \in {"fetch failure", "decoding failure", "no issuer found"}}

\* no single call of Resolve is under way
CallAtStart ==
    /\ pc = "start"
    /\ input = <<>>
    /\ certs = <<>>
    /\ loop = 0
    /\ issuerURL = ""
    /\ resp = NoResp
    /\ data = Garbage
    /\ err = NoError
    /\ newCert = certX
    /\ retChain = NilChain
    /\ retErr = NoError
    /\ warnings = <<>>
    /\ fetched = <<>>
    /\ decodes = 0
    /\ exit = "none"

\* an orchestrator over n strategies; its URL resolver is the one that
\* newURLResolver builds
InitOrch ==
    /\ loopLimit = defaultURLResolverLoopLimit
    /\ CallAtStart
    /\ calls = [c \in Callers |-> CallIdle]
    /\ \E n \in 1..MaxStrategies : orch = [OrchIdle EXCEPT !.n = n]

\* Resolve(chain) of the orchestrator is called
OrchResolve ==
    /\ orch.pc = "idle"
    /\ \E chain \in OrchInputs :
        orch' = [orch EXCEPT !.pc = "running", !.input = chain, !.i = 1]
    /\ UNCHANGED <<loopLimit, callVars, calls>>

\* OrchAfter giving up at the first error
OrchAfter_FirstError(o, i, n) ==
    [pc |-> "done", i |-> i, chain |-> o.chain, err |-> o.err]

\* the state of the orchestrator after strategy i of n returned o: done
\* with o when o has no error or i is the last strategy, else strategy
\* i + 1 is due
OrchAfter(o, i, n) ==
    IF o.err = NoError \/ i = n
    THEN [pc |-> "done", i |-> i, chain |-> o.chain, err |-> o.err]
    ELSE [pc |-> "running", i |-> i + 1, chain |-> NilChain, err |-> NoError]

\* the next strategy is invoked with the chain and returns
OrchInvoke ==
    /\ orch.pc = "running"
    /\ \E o \in StrategyOutcomes(orch.input) :
        orch' = [orch EXCEPT
                    !.results = Append(@, [strategy |-> orch.i, chain |-> o.chain, err |-> o.err]),
                    !.pc = OrchAfter(o, orch.i, orch.n).pc,
                    !.i = OrchAfter(o, orch.i, orch.n).i,
                    !.chain = OrchAfter(o, orch.i, orch.n).chain,
                    !.err = OrchAfter(o, orch.i, orch.n).err]
    /\ UNCHANGED <<loopLimit, callVars, calls>>

NextOrch ==
    \/ OrchResolve
    \/ OrchInvoke

SpecOrch == InitOrch /\ [][NextOrch]_vars

(* ------------------------ concurrent callers --------------------------- *)

\* the chains the concurrent callers pass
ConcInputs == {<<>>, <<certX>>, <<certL>>, <<certX, certY>>}

\* the answers the servers give to the concurrent callers
ConcOutcomes ==
    {o \in HTTPOutcomes :
        \/ o.getErr
        \/ /\ o.status = StatusOK
           /\ o.body \in {DER(certX), DER(certR), Garbage}
           /\ (o.readErr => o.body = Garbage)}

\* one urlResolver with some loop limit; no caller has called yet
InitConc ==
    /\ loopLimit \in LoopLimits
    /\ CallAtStart
    /\ orch = OrchIdle
    /\ calls = [c \in Callers |-> CallIdle]

\* caller c calls Resolve: if len(certs) < 1 { return nil, nil }; loop := 0
CResolveEnter(c) ==
    /\ calls[c].pc = "start"
    /\ \E chain \in ConcInputs :
        calls' = [calls EXCEPT ![c] =
                    [@ EXCEPT !.input = chain, !.certs = chain, !.loop = 0,
                              !.retChain = NilChain, !.retErr = NoError,
                              !.pc = IF Len(chain) < 1 THEN "done" ELSE "loop"]]
    /\ UNCHANGED <<loopLimit, callVars, orch>>

\* CLoopLimitCheck with the loop counter kept in the resolver, shared by
\* the calls, in place of the local loop
CLoopLimitCheck_SharedLoop(c) ==
    /\ calls[c].pc = "loop"
    /\ loop' = loop + 1
    /\ calls' = [calls EXCEPT ![c] =
                    [@ EXCEPT !.pc = IF LoopLimitReached(loop + 1, loopLimit)
                                     THEN "return" ELSE "inspect"]]
    /\ UNCHANGED <<loopLimit, pc, input, certs, issuerURL, resp, data, err,
                   newCert, retChain, retErr, warnings, fetched, decodes,
                   exit, orch>>

\* in the call of c: loop++; if loop >= r.loopLimit { break }
CLoopLimitCheck(c) ==
    /\ calls[c].pc = "loop"
    /\ calls' = [calls EXCEPT ![c] =
                    [@ EXCEPT !.loop = @ + 1,
                              !.pc = IF LoopLimitReached(calls[c].loop + 1, loopLimit)
                                     THEN "return" ELSE "inspect"]]
    /\ UNCHANGED <<loopLimit, callVars, orch>>

\* in the call of c: if certificate.IssuingCertificateURL == nil { break }
CInspectTail(c) ==
    /\ calls[c].pc = "inspect"
    /\ calls' = [calls EXCEPT ![c] =
                    [@ EXCEPT !.pc = IF NoParentURL(LastCert(calls[c].certs))
                                     THEN "return" ELSE "fetch"]]
    /\ UNCHANGED <<loopLimit, callVars, orch>>

\* in the call of c: data, err := r.fetcher.Fetch(issuerURL)
CFetchIssuer(c) ==
    /\ calls[c].pc = "fetch"
    /\ \E o \in ConcOutcomes :
        calls' = [calls EXCEPT ![c] =
                    [@ EXCEPT !.resps = Append(@, o),
                              !.fetches = @ + 1,
                              !.data = Fetch(FirstIssuerURL(LastCert(calls[c].certs)), o).data,
                              !.err = Fetch(FirstIssuerURL(LastCert(calls[c].certs)), o).err,
                              !.pc = "fetched"]]
    /\ UNCHANGED <<loopLimit, callVars, orch>>

\* in the call of c: the fetch failed, Resolve returns nil and the error
CFetchFailed(c) ==
    /\ calls[c].pc = "fetched"
    /\ calls[c].err # NoError
    /\ calls' = [calls EXCEPT ![c] =
                    [@ EXCEPT !.retChain = AbortResult(calls[c].certs,
                                    Wrap("remote fetch failure", calls[c].err)).chain,
                              !.retErr = AbortResult(calls[c].certs,
                                    Wrap("remote fetch failure", calls[c].err)).err,
                              !.pc = "done"]]
    /\ UNCHANGED <<loopLimit, callVars, orch>>

\* in the call of c: newCert, err := r.decoder(data), decoding succeeds
CDecodeOK(c) ==
    /\ calls[c].pc = "fetched"
    /\ calls[c].err = NoError
    /\ decodeOK(calls[c].data)
    /\ calls' = [calls EXCEPT ![c] =
                    [@ EXCEPT !.newCert = decodeCertificate(calls[c].data),
                              !.pc = "decoded"]]
    /\ UNCHANGED <<loopLimit, callVars, orch>>

\* in the call of c: decoding fails, Resolve returns nil and the error
CDecodeFailed(c) ==
    /\ calls[c].pc = "fetched"
    /\ calls[c].err = NoError
    /\ ~decodeOK(calls[c].data)
    /\ calls' = [calls EXCEPT ![c] =
                    [@ EXCEPT !.err = <<"parse error">>,
                              !.retChain = AbortResult(calls[c].certs,
                                    Wrap("decoding failure", <<"parse error">>)).chain,
                              !.retErr = AbortResult(calls[c].certs,
                                    Wrap("decoding failure", <<"parse error">>)).err,
                              !.pc = "done"]]
    /\ UNCHANGED <<loopLimit, callVars, orch>>

\* in the call of c: certs = append(certs, newCert);
\* if isSelfSigned(newCert) { break }
CAppendCert(c) ==
    /\ calls[c].pc = "decoded"
    /\ calls' = [calls EXCEPT ![c] =
                    [@ EXCEPT !.certs = AppendTo(@, calls[c].newCert),
                              !.pc = IF isSelfSigned(calls[c].newCert)
                                     THEN "return" ELSE "loop"]]
    /\ UNCHANGED <<loopLimit, callVars, orch>>

\* in the call of c: return certs, nil
CReturnChain(c) ==
    /\ calls[c].pc = "return"
    /\ calls' = [calls EXCEPT ![c] =
                    [@ EXCEPT !.retChain = calls[c].certs,
                              !.retErr = NoError,
                              !.pc = "done"]]
    /\ UNCHANGED <<loopLimit, callVars, orch>>

NextConc ==
    \/ \E c \in Callers : CResolveEnter(c)
    \/ \E c \in Callers : CLoopLimitCheck(c)
    \/ \E c \in Callers : CInspectTail(c)
    \/ \E c \in Callers : CFetchIssuer(c)
    \/ \E c \in Callers : CFetchFailed(c)
    \/ \E c \in Callers : CDecodeOK(c)
    \/ \E c \in Callers : CDecodeFailed(c)
    \/ \E c \in Callers : CAppendCert(c)
    \/ \E c \in Callers : CReturnChain(c)

SpecConc == InitConc /\ [][NextConc]_vars

\* Resolve's loop run by one caller alone from the chain cs and the counter
\* l, with rs the answers of the servers of which k are used up: the chain
\* and the error it returns and the number of its fetches
RECURSIVE RunAlone(_, _, _, _, _)
RunAlone(cs, l, limit, rs, k) ==
    IF LoopLimitReached(l + 1, limit) \/ NoParentURL(LastCert(cs))
    THEN [chain |-> cs, err |-> NoError, fetches |-> k]
    ELSE IF k >= Len(rs)
    THEN [chain |-> NilChain, err |-> <<"no answer">>, fetches |-> k + 1]
    ELSE LET f == Fetch(FirstIssuerURL(LastCert(cs)), rs[k + 1])
         IN  IF f.err # NoError
             THEN [chain |-> AbortResult(cs, Wrap("remote fetch failure", f.err)).chain,
                   err |-> AbortResult(cs, Wrap("remote fetch failure", f.err)).err,
                   fetches |-> k + 1]
             ELSE IF ~decodeOK(f.data)
             THEN [chain |-> AbortResult(cs, Wrap("decoding failure", <<"parse error">>)).chain,
                   err |-> AbortResult(cs, Wrap("decoding failure", <<"parse error">>)).err,
                   fetches |-> k + 1]
             ELSE IF isSelfSigned(decodeCertificate(f.data))
             THEN [chain |-> AppendTo(cs, decodeCertificate(f.data)),
                   err |-> NoError, fetches |-> k + 1]
             ELSE RunAlone(AppendTo(cs, decodeCertificate(f.data)), l + 1,
                           limit, rs, k + 1)

\* Resolve(chain) run by one caller alone
ResolveAlone(chain, limit, rs) ==
    IF Len(chain) < 1
    THEN [chain |-> NilChain, err |-> NoError, fetches |-> 0]
    ELSE RunAlone(chain, 0, limit, rs, 0)

\* Resolve runs on: fetcher.Fetch and the decoder return (the HTTP client has
\* a timeout), and nothing else in the call waits
FairSpec == Spec /\ WF_vars(Next)

(* --------------------------- properties -------------------------------- *)

IsPrefix(a, b) == Len(a) <= Len(b) /\ \A i \in 1..Len(a) : b[i] = a[i]

\* number of certificates appended so far in the call
Appended == Len(certs) - Len(input)

\* the last call of the fetcher returned an error
FetchHasFailed == Len(fetched) > 0 /\ Fetch(issuerURL, resp).err # NoError

\* the last call of the fetcher returned bytes that are no certificate
DecodeFails ==
    Len(fetched) > 0 /\ Fetch(issuerURL, resp).err = NoError /\ ~decodeOK(Fetch(issuerURL, resp).data)

LimitWarning == "urlResolver loop limit exceeded; exiting the loop"

\* C1: whenever Resolve returns without error, the returned chain starts
\* with the input chain, element by element; during the call the chain
\* always starts with the input and changes only by an append at its tail.
C1_InputIsPrefix ==
    /\ [](pc = "done" /\ retErr = NoError => IsPrefix(input, retChain))
    /\ [](pc # "start" => IsPrefix(input, certs))
    /\ [][pc # "start" =>
            \/ certs' = certs
            \/ \E c \in Certificates : certs' = Append(certs, c)]_vars

C1_Witness ==
    /\ pc = "done"
    /\ retErr = NoError
    /\ Len(input) = 2
    /\ Len(retChain) = 4
    /\ IsPrefix(input, retChain)

\* C2: when a fetch fails, at any iteration, Resolve returns a non-nil
\* error and the nil chain; the failed fetch is the last fetch of the call,
\* its answer is never decoded, and the caller's chain is unchanged.
C2_FetchFailureAborts ==
    /\ [](pc = "done" /\ FetchHasFailed =>
            /\ retErr # NoError
            /\ retChain = NilChain
            /\ Len(fetched) = Appended + 1
            /\ decodes = Appended
            /\ IsPrefix(input, certs))
    /\ [][pc = "fetched" /\ FetchHasFailed =>
            /\ pc' = "done"
            /\ fetched' = fetched
            /\ decodes' = decodes
            /\ input' = input]_vars

C2_Witness ==
    /\ pc = "done"
    /\ FetchHasFailed
    /\ Appended = 2
    /\ retChain = NilChain
    /\ retErr # NoError

\* C3: when the fetched bytes do not decode, Resolve aborts as for a fetch
\* failure: non-nil error with the same outer message, nil chain, nothing
\* appended in that iteration and no fetch after it.
C3_DecodeFailureAborts ==
    /\ [](pc = "done" /\ DecodeFails =>
            /\ retErr # NoError
            /\ Head(retErr) = "error while fetching issuer certificate"
            /\ retChain = NilChain
            /\ decodes = Appended + 1
            /\ Len(fetched) = decodes)
    /\ [][pc = "fetched" /\ DecodeFails =>
            /\ pc' = "done"
            /\ certs' = certs
            /\ fetched' = fetched]_vars

C3_Witness ==
    /\ pc = "done"
    /\ DecodeFails
    /\ Appended = 1
    /\ retChain = NilChain
    /\ retErr # NoError

\* C4 as stated: a call performs at most loopLimit - 1 fetch attempts.
C4_Original == pc = "done" => Len(fetched) <= loopLimit - 1

\* C4, amended: a call performs at most loopLimit - 1 fetch attempts when
\* loopLimit >= 1, and none when loopLimit < 1.
C4_FetchBound ==
    Len(fetched) <= (IF loopLimit >= 1 THEN loopLimit - 1 ELSE 0)

C4_Witness ==
    /\ pc = "done"
    /\ loopLimit = 4
    /\ Len(fetched) = 3
    /\ \A i \in 1..Len(retChain) :
        ~isSelfSigned(retChain[i]) /\ ~NoParentURL(retChain[i])

\* C5: when the loop limit ends the call, Resolve returns the chain built
\* so far with a nil error and exactly one warning was written; with
\* loopLimit = 3 and a one element input there were exactly 2 fetches and
\* the result has 3 elements.
C5_LoopLimitReturnsChain ==
    pc = "done" /\ exit = "limit" =>
        /\ retErr = NoError
        /\ retChain = certs
        /\ IsPrefix(input, retChain)
        /\ warnings = <<LimitWarning>>
        /\ Len(retChain) = Len(input) + Len(fetched)
        /\ (loopLimit = 3 /\ Len(input) = 1 =>
                Len(fetched) = 2 /\ Len(retChain) = 3)

C5_Witness ==
    /\ pc = "done"
    /\ exit = "limit"
    /\ loopLimit = 3
    /\ retChain = <<certX, certY, certZ>>
    /\ retErr = NoError

\* C6: an appended root ends the loop with success: it is the last element
\* of the chain, no fetch follows it (even if it carries an issuer URL),
\* and the call returns the chain with a nil error; for the leaf X whose
\* issuer URL serves the self-signed R the result is ([X, R], nil).
C6_RootStops ==
    /\ \A i \in (Len(input) + 1)..Len(certs) :
        isSelfSigned(certs[i]) =>
            /\ i = Len(certs)
            /\ pc \in {"return", "done"}
            /\ Len(fetched) = Appended
            /\ (pc = "done" => retChain = certs /\ retErr = NoError)
    /\ (/\ pc = "done"
        /\ input = <<certX>>
        /\ Len(fetched) = 1
        /\ Fetch(issuerURL, resp) = [data |-> DER(certR), err |-> NoError])
       => retChain = <<certX, certR>> /\ retErr = NoError

C6_Witness ==
    /\ pc = "done"
    /\ loopLimit = MaxLoopLimit
    /\ retChain = <<certX, certR>>
    /\ retErr = NoError
    /\ fetched = <<"u1">>

\* C7: when the tail of the input carries no issuer URL the call returns
\* the input unchanged with a nil error and without any fetch or decode;
\* whenever the tail of the chain carries no issuer URL no fetch is under
\* way and the call ends with the chain built so far and a nil error.
C7_NoURLStops ==
    /\ (pc = "done" /\ Len(input) >= 1 /\ NoParentURL(LastCert(input))) =>
            /\ retChain = input
            /\ retErr = NoError
            /\ fetched = <<>>
            /\ decodes = 0
    /\ (pc # "start" /\ Len(certs) >= 1 /\ NoParentURL(LastCert(certs))) =>
            /\ pc \in {"loop", "inspect", "return", "done"}
            /\ (pc = "done" => retChain = certs /\ retErr = NoError)

C7_Witness ==
    /\ pc = "done"
    /\ exit = "nourl"
    /\ input = <<certL>>
    /\ retChain = <<certL>>
    /\ retErr = NoError
    /\ fetched = <<>>

\* C8: a response with a non-success status makes Fetch return an error,
\* and its body is never handed to the decoder.
C8_NonSuccessIsFetchError ==
    (pc \in {"fetched", "decoded"} /\ ~resp.getErr /\ resp.status # StatusOK) =>
        /\ err # NoError
        /\ decodes = Appended

\* C9: for an empty input Resolve returns the nil chain and a nil error,
\* with no fetch, no decode and no warning.
C9_EmptyInput ==
    (pc = "done" /\ Len(input) < 1) =>
        /\ retChain = NilChain
        /\ retErr = NoError
        /\ fetched = <<>>
        /\ decodes = 0
        /\ warnings = <<>>

C9_Witness ==
    /\ pc = "done"
    /\ input = <<>>
    /\ loopLimit = 0
    /\ retErr = NoError

\* C10: a finished call has either a nil error (and, for a non-empty input,
\* a chain) or a non-nil error and the nil chain; a call ended by the loop
\* limit has a nil error, a call ended by a failed fetch or decode has a
\* non-nil error.
C10_ErrorXorChain ==
    pc = "done" =>
        /\ \/ retErr = NoError /\ (Len(input) >= 1 => retChain # NilChain)
           \/ retErr # NoError /\ retChain = NilChain
        /\ (exit = "limit" => retErr = NoError)
        /\ (FetchHasFailed \/ DecodeFails => retErr # NoError)

C10_Witness ==
    /\ pc = "done"
    /\ exit = "limit"
    /\ Appended = 1
    /\ retErr = NoError
    /\ retChain = certs

\* the parts of the message of an error
ErrParts(e) == {e[i] : i \in 1..Len(e)}

C15_FirstURLOnly ==
    /\ [](\A i \in 1..Len(fetched) :
            /\ Len(input) + i - 1 <= Len(certs)
            /\ fetched[i] = certs[Len(input) + i - 1].IssuingCertificateURL[1])
    /\ [](pc = "done" /\ (FetchHasFailed \/ DecodeFails) =>
            /\ retErr # NoError
            /\ Len(fetched) = Appended + 1)
    /\ [][(pc = "fetched" /\ (FetchHasFailed \/ DecodeFails))
            => (fetched' = fetched /\ pc' = "done")]_vars

C15_Witness ==
    /\ pc = "done"
    /\ FetchHasFailed
    /\ certs = <<certX, certY>>
    /\ fetched = <<"u1", "u2">>
    /\ retErr # NoError

\* number of calls of the decoder that returned a certificate
SuccessfulDecodes == decodes - (IF exit = "decodeerr" THEN 1 ELSE 0)

\* C17: in a call there is at most one fetch per iteration and at most one
\* decode per fetch; the decoder is called only with the data of a
\* successful fetch and before any other fetch; a certificate is appended
\* only after a successful decode, and the certificates appended are as many
\* as the successful decodes.
C17_FetchDecodeAppend ==
    /\ [](/\ Len(fetched) <= loop
          /\ decodes <= Len(fetched)
          /\ Len(fetched) <= decodes + 1
          /\ (pc = "decoded" => SuccessfulDecodes = Appended + 1)
          /\ (pc # "decoded" => SuccessfulDecodes = Appended))
    /\ [][decodes' # decodes =>
            /\ decodes' = decodes + 1
            /\ pc = "fetched"
            /\ err = NoError
            /\ Len(fetched) = decodes + 1
            /\ fetched' = fetched
            /\ certs' = certs]_vars
    /\ [][(pc # "start" /\ certs' # certs) =>
            /\ pc = "decoded"
            /\ certs' = Append(certs, newCert)
            /\ newCert = decodeCertificate(data)
            /\ fetched' = fetched
            /\ decodes' = decodes]_vars
    /\ [][fetched' # fetched =>
            /\ Len(fetched') = Len(fetched) + 1
            /\ decodes = Len(fetched)
            /\ Appended = Len(fetched)
            /\ decodes' = decodes
            /\ certs' = certs]_vars

C17_Witness ==
    /\ pc = "done"
    /\ exit = "decodeerr"
    /\ Len(fetched) = 3
    /\ decodes = 3
    /\ Appended = 2

\* C18: the loop limit warning is written only when the tail of the chain
\* still carries an issuer URL and no root was appended.
C18_WarningOnlyIfIncomplete ==
    (\E i \in 1..Len(warnings) : warnings[i] = LimitWarning) =>
        /\ ~NoParentURL(LastCert(certs))
        /\ (Appended >= 1 => ~isSelfSigned(LastCert(certs)))

\* C19: the tail of the input is not tested for being a root: when it is
\* self-signed and carries an issuer URL and loopLimit >= 2, its first
\* issuer URL is fetched, and the call ends either with a chain longer than
\* the input or with the error of a failed fetch or decode.
C19_InputTailNotRootChecked ==
    (/\ pc = "done"
     /\ Len(input) >= 1
     /\ isSelfSigned(LastCert(input))
     /\ ~NoParentURL(LastCert(input))
     /\ loopLimit >= 2) =>
        /\ Len(fetched) >= 1
        /\ fetched[1] = LastCert(input).IssuingCertificateURL[1]
        /\ \/ retErr = NoError /\ Len(retChain) > Len(input)
           \/ retErr # NoError /\ (FetchHasFailed \/ DecodeFails)

C19_Witness ==
    /\ pc = "done"
    /\ input = <<certR>>
    /\ retChain = <<certR, certL>>
    /\ retErr = NoError
    /\ loopLimit = 2

\* C16: every call of Resolve ends, whatever the input, the loop limit and
\* the answers of the servers (cyclic and endless issuer graphs included),
\* after at most loopLimit tests of the limit, or one when loopLimit < 1.
C16_Terminates ==
    /\ <>(pc = "done")
    /\ [][loop' <= (IF loopLimit >= 1 THEN loopLimit ELSE 1)]_vars

\* the issuer URL of X serves X again and again
C16_Witness ==
    /\ pc = "done"
    /\ loopLimit = 4
    /\ retChain = <<certX, certX, certX, certX>>
    /\ retErr = NoError

\* C12: the orchestrator invokes its strategies in the order 1, 2, ..., each
\* at most once and the next only after the one before returned an error;
\* it returns the result of the first strategy without error, or the error
\* of the last strategy when all fail; with one strategy its result is that
\* strategy's result.
C12_OrchestratorOrder ==
    /\ \A k \in 1..Len(orch.results) :
        /\ orch.results[k].strategy = k
        /\ k <= orch.n
        /\ (k < Len(orch.results) => orch.results[k].err # NoError)
    /\ (orch.pc = "running" =>
            /\ Len(orch.results) < orch.n
            /\ orch.i = Len(orch.results) + 1)
    /\ (orch.pc = "done" =>
            /\ Len(orch.results) >= 1
            /\ orch.chain = orch.results[Len(orch.results)].chain
            /\ orch.err = orch.results[Len(orch.results)].err
            /\ (orch.err # NoError => Len(orch.results) = orch.n)
            /\ (orch.n = 1 => Len(orch.results) = 1))

C12_Witness ==
    /\ orch.pc = "done"
    /\ orch.n = 3
    /\ Len(orch.results) = 2
    /\ orch.results[1].err # NoError
    /\ orch.err = NoError
    /\ orch.chain = <<certX, certR>>

\* C13: with several callers on one urlResolver, every finished call has the
\* chain, the error and the number of fetches that Resolve gives when run
\* alone on the same input with the same answers of the servers, and has
\* used all of these answers; a step of one call changes no other call, and
\* loopLimit is never written.
C13_CallsIndependent ==
    /\ [](\A c \in Callers : calls[c].pc = "done" =>
            /\ [chain |-> calls[c].retChain, err |-> calls[c].retErr,
                fetches |-> calls[c].fetches]
               = ResolveAlone(calls[c].input, loopLimit, calls[c].resps)
            /\ calls[c].fetches = Len(calls[c].resps))
    /\ [][loopLimit' = loopLimit]_vars
    /\ [][\A c, d \in Callers :
            (c # d /\ calls'[c] # calls[c]) => calls'[d] = calls[d]]_vars

C13_Witness ==
    /\ loopLimit = 3
    /\ calls["a"].pc = "done"
    /\ calls["b"].pc = "done"
    /\ calls["a"].input = <<certX>>
    /\ calls["b"].input = <<certX>>
    /\ calls["a"].retChain = <<certX, certX, certX>>
    /\ calls["a"].fetches = 2
    /\ calls["b"].retErr # NoError
    /\ calls["b"].fetches = 2

====
